---- MODULE Spec2Model ----
(***************************************************************************)
(* homework_bot: the poll / validate / parse / notify loop of homework.py. *)
(*                                                                         *)
(* Python values are tagged records.  A text is a sequence of fragments    *)
(* (the pieces an f-string joins); two texts are equal when the fragment   *)
(* sequences are.  The Russian literals of the source are transliterated,  *)
(* one ASCII literal per source literal.                                   *)
(***************************************************************************)
EXTENDS Integers, Sequences, FiniteSets, TLC

\* ------------------------------------------------------------------ bounds
\* homeworks lists of the modelled responses hold at most MaxLen records
MaxLen == 2
\* the send calls of one run of same-text failures are counted up to MaxCount
MaxCount == 3

\* --------------------------------------------------------------- constants
RETRY_PERIOD == 600

HTTP_OK == 200

\* ------------------------------------------------------------ Python values
None == [t |-> "None"]
Absent == [t |-> "absent"]
JStr(s) == [t |-> "str", s |-> s]
JInt(n) == [t |-> "int", n |-> n]
JList(xs) == [t |-> "list", items |-> xs]

Keys == {"homeworks", "current_date", "status", "homework_name"}

\* a dict over the keys the program reads; Absent marks a key that is not set
JDict(m) == [t |-> "dict", map |-> [k \in Keys |-> IF k \in DOMAIN m THEN m[k] ELSE Absent]]

EmptyDict == JDict([x \in {} |-> Absent])

\* dict.get(key): None for a key that is not set
Get(d, key) == IF d.map[key] = Absent THEN None ELSE d.map[key]

\* bool(value)
Truthy(v) ==
    CASE v.t = "None" -> FALSE
      [] v.t = "str" -> v.s # ""
      [] v.t = "int" -> v.n # 0
      [] v.t = "list" -> v.items # <<>>
      [] v.t = "dict" -> \E k \in Keys : v.map[k] # Absent
      [] OTHER -> TRUE

\* an f-string's rendering of a value
Format(v) ==
    CASE v.t = "None" -> <<"None">>
      [] v.t = "str" -> <<v.s>>
      [] v.t = "int" -> <<ToString(v.n)>>
      [] OTHER -> <<"<", v.t, ">">>

\* repr() of a text (no single quote inside: single-quoted)
Repr(text) == <<"'">> \o text \o <<"'">>

\* -------------------------------------------------------------- exceptions
Exc(cls, text) == [t |-> "exception", cls |-> cls, arg |-> text]

\* str(): "None" for None; KeyError renders the repr of its argument
StrOf(x) ==
    IF x.t = "None" THEN <<"None">>
    ELSE IF x.cls = "KeyError" THEN Repr(x.arg)
    ELSE x.arg

\* the outcome of a call: a returned value or a raised exception, with the
\* messages the call handed to the messaging client (bot.send_message)
Return(v, wire) == [k |-> "return", v |-> v, wire |-> wire]
Raise(e, wire) == [k |-> "raise", e |-> e, wire |-> wire]

\* mutant: the texts of approved and rejected exchanged
HOMEWORK_VERDICTS_Swapped(status) ==
    CASE status = "approved" -> "Rabota proverena: u revyuera est zamechaniya."
      [] status = "reviewing" -> "Rabota vzyata na proverku revyuerom."
      [] status = "rejected" -> "Rabota proverena: revyueru vsyo ponravilos. Ura!"

\* lines 41-45
HOMEWORK_VERDICTS(status) ==
    CASE status = "approved" -> "Rabota proverena: revyueru vsyo ponravilos. Ura!"
      [] status = "reviewing" -> "Rabota vzyata na proverku revyuerom."
      [] status = "rejected" -> "Rabota proverena: u revyuera est zamechaniya."

VerdictKeys == {"approved", "reviewing", "rejected"}

\* a str built by the program (an f-string or str(error)): its fragments
PyText(frags) == [t |-> "text", frags |-> frags]

\* ------------------------------------------------------------- credentials
TokenNames == {"PRACTICUM_TOKEN", "TELEGRAM_TOKEN", "TELEGRAM_CHAT_ID"}

\* os.getenv: None when the variable is not set, else its (maybe empty) value
TokenValues == {None, JStr(""), JStr("token")}

\* mutant: any() in place of all() at line 57
check_tokens_Any(env) ==
    IF \E n \in TokenNames : Truthy(env[n])
    THEN Return(None, <<>>)
    ELSE Raise(Exc("SystemExit", <<"Ne naiden token">>), <<>>)

\* check_tokens(): "return" when all three are truthy, else sys.exit
check_tokens(env) ==
    IF \A n \in TokenNames : Truthy(env[n])
    THEN Return(None, <<>>)
    ELSE Raise(Exc("SystemExit", <<"Ne naiden token">>), <<>>)

\* ---------------------------------------------------------------- notifier
NetOutcomes == {"ok", "TelegramError"}

MissingMessage ==
    Exc("TypeError", <<"send_message() missing 1 required positional argument: 'message'">>)

\* mutant: the TelegramError of bot.send_message is not caught
send_message_Reraises(args, net) ==
    IF Len(args) # 2 THEN Raise(MissingMessage, <<>>)
    ELSE LET attempt == [text |-> args[2], delivered |-> net = "ok"]
         IN  CASE net = "TelegramError" ->
                    Raise(Exc("TelegramError", <<"Timed out">>), <<attempt>>)
               [] OTHER -> Return(None, <<attempt>>)

\* send_message(bot, message) called with the positional arguments args;
\* net is what bot.send_message does.  A call that does not bind both
\* parameters raises TypeError before the body runs.
send_message(args, net) ==
    IF Len(args) # 2 THEN Raise(MissingMessage, <<>>)
    ELSE LET attempt == [text |-> args[2], delivered |-> net = "ok"]
         IN  CASE net = "TelegramError" -> Return(None, <<attempt>>)
               [] OTHER -> Return(None, <<attempt>>)

\* mutant: the call of line 84 with the bot argument
log_send_err_message_WithBot(exception, err_description, net) ==
    LET message == <<"V rabote bota proizoshla oshibka: ">> \o exception
                   \o <<" ">> \o err_description
    IN  send_message(<<"bot", PyText(message)>>, net)

\* log_send_err_message(exception, err_description): exception is the text
\* the f-string renders
log_send_err_message(exception, err_description, net) ==
    LET message == <<"V rabote bota proizoshla oshibka: ">> \o exception
                   \o <<" ">> \o err_description
    IN  send_message(<<message>>, net)

\* -------------------------------------------------------------- API client
NotJson == [t |-> "notjson"]

\* what requests.get / response.json() do in one call
ConnectionError == [kind |-> "ConnectionError", e |-> <<"connection refused">>]
Timeout == [kind |-> "Timeout", e |-> <<"read timed out">>]
RequestException == [kind |-> "RequestException", e |-> <<"invalid url">>]
Resp(code, body) == [kind |-> "response", status_code |-> code, body |-> body]

\* the wire of a call followed by the outcome of what runs after it
After(first, rest) ==
    IF first.k = "raise" THEN first
    ELSE IF rest.k = "raise" THEN Raise(rest.e, first.wire \o rest.wire)
    ELSE Return(rest.v, first.wire \o rest.wire)

\* mutant: the GET issued a second time
Requests_Retried(timestamp) ==
    <<[params |-> [from_date |-> timestamp]], [params |-> [from_date |-> timestamp]]>>

\* lines 93-100: the GETs one call of get_api_answer issues
Requests(timestamp) == <<[params |-> [from_date |-> timestamp]]>>

\* get_api_answer(timestamp): o is the outcome of the GET with
\* params {'from_date': timestamp}
get_api_answer(timestamp, o, net) ==
    LET homework_valid_json == EmptyDict
        onRequestException(e) ==
            After(log_send_err_message(e, <<"Oshibka otpravki zaprosa. ">> \o e, net),
                  Return(homework_valid_json, <<>>))
    IN  CASE o.kind = "ConnectionError" ->
               After(log_send_err_message(o.e, <<"Oshibka soedineniya.">>, net),
                     Return(homework_valid_json, <<>>))
          [] o.kind = "Timeout" ->
               After(log_send_err_message(o.e, <<"Oshibka Timeout-a. ">> \o o.e, net),
                     Return(homework_valid_json, <<>>))
          [] o.kind = "RequestException" -> onRequestException(o.e)
          [] o.kind = "response" /\ o.status_code # HTTP_OK ->
               LET message == <<"Server domashki ne vernul status 200.">>
               IN  After(log_send_err_message(<<"Not HTTPStatus.OK">>, message, net),
                         onRequestException(message))
          [] o.kind = "response" /\ o.status_code = HTTP_OK /\ o.body = NotJson ->
               After(log_send_err_message(<<"Expecting value">>,
                                          <<"Ne udalos prochitat json-obekt.">>, net),
                     Return(homework_valid_json, <<>>))
          [] OTHER -> Return(o.body, <<>>)

\* --------------------------------------------------------------- validator
\* mutant: the last record of the list (homeworks[-1]) instead of the first
check_response_Last(response) ==
    IF response.t # "dict"
    THEN Raise(Exc("TypeError", <<"Nevernyi format dannyh, ozhidaem slovar">>), <<>>)
    ELSE IF Get(response, "homeworks") = None
    THEN Raise(Exc("KeyError", <<"V otvete API net klyucha homeworks">>), <<>>)
    ELSE LET homeworks == Get(response, "homeworks")
         IN  IF homeworks.t # "list"
             THEN Raise(Exc("TypeError", <<"Nevernyi format homeworks, ozhidaem spisok">>), <<>>)
             ELSE IF Len(homeworks.items) = 0
             THEN Raise(Exc("IndexError", <<"list index out of range">>), <<>>)
             ELSE Return(homeworks.items[Len(homeworks.items)], <<>>)

check_response(response) ==
    IF response.t # "dict"
    THEN Raise(Exc("TypeError", <<"Nevernyi format dannyh, ozhidaem slovar">>), <<>>)
    ELSE IF Get(response, "homeworks") = None
    THEN Raise(Exc("KeyError", <<"V otvete API net klyucha homeworks">>), <<>>)
    ELSE LET homeworks == Get(response, "homeworks")
         IN  IF homeworks.t # "list"
             THEN Raise(Exc("TypeError", <<"Nevernyi format homeworks, ozhidaem spisok">>), <<>>)
             ELSE IF Len(homeworks.items) = 0
             THEN Raise(Exc("IndexError", <<"list index out of range">>), <<>>)
             ELSE Return(homeworks.items[1], <<>>)

\* ------------------------------------------------------------------ parser
StatusPrefix == "Izmenilsya status proverki raboty \""

\* mutant: the status check of lines 139-142 left out
parse_status_AnyStatus(homework) ==
    IF homework.t # "dict"
    THEN Raise(Exc("AttributeError",
                   <<"'", homework.t, "' object has no attribute 'get'">>), <<>>)
    ELSE LET current_status_homework == Get(homework, "status")
             known == /\ current_status_homework.t = "str"
                      /\ current_status_homework.s \in VerdictKeys
             verdict == IF known THEN HOMEWORK_VERDICTS(current_status_homework.s)
                        ELSE "None"
             homework_name == Get(homework, "homework_name")
         IN  IF ~Truthy(homework_name)
             THEN Raise(Exc("KeyError",
                            <<"V domashnei rabote net klyucha \"homework_name\"">>), <<>>)
             ELSE Return(PyText(<<StatusPrefix>> \o Format(homework_name)
                                \o <<"\". ", verdict>>), <<>>)

\* mutant: the name check of lines 145-146 left out
parse_status_NoNameCheck(homework) ==
    IF homework.t # "dict"
    THEN Raise(Exc("AttributeError",
                   <<"'", homework.t, "' object has no attribute 'get'">>), <<>>)
    ELSE LET current_status_homework == Get(homework, "status")
             known == /\ current_status_homework.t = "str"
                      /\ current_status_homework.s \in VerdictKeys
         IN  IF current_status_homework = None \/ ~known
             THEN Raise(Exc("KeyError", <<"Oshibka s klyuchom ">>
                                        \o Format(current_status_homework)), <<>>)
             ELSE LET verdict == HOMEWORK_VERDICTS(current_status_homework.s)
                      homework_name == Get(homework, "homework_name")
                  IN  Return(PyText(<<StatusPrefix>> \o Format(homework_name)
                                    \o <<"\". ", verdict>>), <<>>)

parse_status(homework) ==
    IF homework.t # "dict"
    THEN Raise(Exc("AttributeError",
                   <<"'", homework.t, "' object has no attribute 'get'">>), <<>>)
    ELSE LET current_status_homework == Get(homework, "status")
             known == /\ current_status_homework.t = "str"
                      /\ current_status_homework.s \in VerdictKeys
         IN  IF current_status_homework = None \/ ~known
             THEN Raise(Exc("KeyError", <<"Oshibka s klyuchom ">>
                                        \o Format(current_status_homework)), <<>>)
             ELSE LET verdict == HOMEWORK_VERDICTS(current_status_homework.s)
                      homework_name == Get(homework, "homework_name")
                  IN  IF ~Truthy(homework_name)
                      THEN Raise(Exc("KeyError",
                                     <<"V domashnei rabote net klyucha \"homework_name\"">>), <<>>)
                      ELSE Return(PyText(<<StatusPrefix>> \o Format(homework_name)
                                         \o <<"\". ", verdict>>), <<>>)

\* ------------------------------------------------------------------ inputs
\* the records a homeworks list can start with: every combination of a
\* status and a homework_name (both absent: the empty dict), and an element
\* that is no dict
Statuses == {Absent, JStr("approved"), JStr("reviewing"), JStr("rejected"), JStr("unknown")}
Names == {Absent, JStr(""), JStr("hw1")}
Records ==
    {JDict([status |-> s, homework_name |-> n]) : s \in Statuses, n \in Names}
    \cup {JStr("text")}

\* the older records that follow the newest one
OlderRecords == {JDict([status |-> JStr("rejected"), homework_name |-> JStr("hw0")]),
                 JInt(0)}

RECURSIVE SeqsUpTo(_, _)
SeqsUpTo(S, n) ==
    IF n = 0 THEN {<<>>}
    ELSE LET shorter == SeqsUpTo(S, n - 1)
         IN  shorter \cup {Append(q, x) : q \in shorter, x \in S}

HomeworkLists ==
    {<<>>} \cup {<<r>> \o tail : r \in Records, tail \in SeqsUpTo(OlderRecords, MaxLen - 1)}

Dates == {Absent, JInt(1000)}

\* decoded bodies: no mapping at all; a mapping whose homeworks is not set,
\* null, no list, or a list
Bodies ==
    {JList(<<>>), JStr("oops")}
    \cup {JDict([homeworks |-> h, current_date |-> d]) :
            h \in {Absent, None, JStr("nothing")} \cup {JList(l) : l \in HomeworkLists},
            d \in Dates}

FetchOutcomes ==
    {ConnectionError, Timeout, RequestException, Resp(500, NotJson), Resp(HTTP_OK, NotJson)}
    \cup {Resp(HTTP_OK, b) : b \in Bodies}

\* int(time.time()) at startup
StartTimes == {JInt(500), JInt(1000)}

Min(a, b) == IF a < b THEN a ELSE b

\* ------------------------------------------------------------------- state
VARIABLES
    pc,                  \* where main() is
    env,                 \* the three module-level credentials
    bot,                 \* telegram.Bot(token=TELEGRAM_TOKEN), once created
    previous_exception,  \* main's last error, or None
    timestamp,           \* main's watermark
    request_query,       \* main's locals, None while they hold nothing live
    response,
    get_message,
    error,
    propagating,         \* an exception raised inside the except clause
    from_date,           \* observed: the from_date of the last GET
    gets,                \* observed: the GETs of this cycle
    served,              \* observed: what this cycle's GET met
    sent,                \* observed: bot.send_message calls of this cycle
    result,              \* observed: "ok" / "fail" once the cycle's try statement is left
    raised,              \* observed: the exception the except clause caught
    last,                \* observed: the previous cycle (text: of the latest failure so far)
    runSent,             \* observed: send calls in the current run of same-text failures
    slept                \* observed: seconds slept since the last GET

vars == <<pc, env, bot, previous_exception, timestamp, request_query, response,
          get_message, error, propagating, from_date, gets, served, sent,
          result, raised, last, runSent, slept>>

locals == <<request_query, response, get_message, error>>
observed == <<from_date, gets, served, sent, result, raised, last, runSent, slept>>

NoCycle == [result |-> "none", text |-> <<>>, date |-> None, notified |-> FALSE,
            sent |-> <<>>]

Init ==
    /\ pc = "start"
    /\ env \in [TokenNames -> TokenValues]
    /\ bot = None
    /\ previous_exception = None
    /\ timestamp = None
    /\ request_query = None
    /\ response = None
    /\ get_message = None
    /\ error = None
    /\ propagating = None
    /\ from_date = None
    /\ gets = <<>>
    /\ served = None
    /\ sent = <<>>
    /\ result = "none"
    /\ raised = None
    /\ last = NoCycle
    /\ runSent = 0
    /\ slept = 0

\* ----------------------------------------------------------------- actions
\* mutant: the exception objects compared (previous_exception != error),
\* which differ whenever a new exception was raised
Differs_ByIdentity(previous, err) == TRUE

\* mutant: an error is sent only when none is stored
Differs_OnlyFirst(previous, err) == previous = None

\* line 179: str(previous_exception) != str(error)
Differs(previous, err) == StrOf(previous) # StrOf(err)

\* mutant: line 177 left out
AfterSuccess_Kept(previous) == previous

\* line 177: previous_exception = None
AfterSuccess(previous) == None

\* the try statement of main() is left: res is "ok" (line 177 ran) or "fail"
\* (the except clause ran for err), wire the send calls of the last step
Leave(res, err, wire) ==
    LET same == last.result = "fail" /\ last.text = StrOf(err)
        before == IF same THEN runSent ELSE 0
    IN  /\ result' = res
        /\ raised' = err
        /\ sent' = sent \o wire
        /\ runSent' = IF res = "fail" THEN Min(MaxCount, before + Len(sent \o wire)) ELSE 0
        /\ pc' = "sleep"

\* main(), lines 166-169: check_tokens(), the bot, the two loop variables
Start ==
    /\ pc = "start"
    /\ LET r == check_tokens(env)
       IN  IF r.k = "raise"
           THEN /\ pc' = "exited"
                /\ UNCHANGED <<bot, previous_exception, timestamp>>
           ELSE /\ pc' = "fetch"
                /\ bot' = [t |-> "bot", token |-> env["TELEGRAM_TOKEN"]]
                /\ previous_exception' = None
                /\ timestamp' \in StartTimes
    /\ UNCHANGED <<env, locals, propagating, observed>>

\* line 172: request_query = get_api_answer(timestamp=timestamp)
Fetch ==
    /\ pc = "fetch"
    /\ \E o \in FetchOutcomes, net \in NetOutcomes :
         LET r == get_api_answer(timestamp, o, net)
         IN  /\ gets' = Requests(timestamp)
             /\ from_date' = gets'[Len(gets')].params.from_date
             /\ served' = o
             /\ sent' = r.wire
             /\ IF r.k = "return"
                THEN /\ request_query' = r.v
                     /\ error' = None
                     /\ pc' = "validate"
                ELSE /\ request_query' = None
                     /\ error' = r.e
                     /\ pc' = "except"
    /\ result' = "running"
    /\ raised' = None
    /\ slept' = 0
    /\ UNCHANGED <<env, bot, previous_exception, timestamp, response, get_message,
                   propagating, last, runSent>>

\* lines 173-174 (and 177 when the record is falsy)
Validate ==
    /\ pc = "validate"
    /\ LET r == check_response(request_query)
       IN  /\ request_query' = None
           /\ IF r.k = "raise"
              THEN /\ error' = r.e
                   /\ pc' = "except"
                   /\ UNCHANGED <<response, previous_exception, sent, result, raised,
                                  runSent>>
              ELSE IF Truthy(r.v)
              THEN /\ response' = r.v
                   /\ pc' = "parse"
                   /\ UNCHANGED <<error, previous_exception, sent, result, raised,
                                  runSent>>
              ELSE /\ response' = None
                   /\ previous_exception' = AfterSuccess(previous_exception)
                   /\ Leave("ok", None, <<>>)
                   /\ UNCHANGED error
    /\ UNCHANGED <<env, bot, timestamp, get_message, propagating, from_date, gets,
                   served, last, slept>>

\* line 175: get_message = parse_status(response)
Parse ==
    /\ pc = "parse"
    /\ LET r == parse_status(response)
       IN  /\ IF r.k = "raise"
              THEN /\ error' = r.e
                   /\ pc' = "except"
                   /\ UNCHANGED get_message
              ELSE /\ get_message' = r.v
                   /\ pc' = "notify"
                   /\ UNCHANGED error
    /\ UNCHANGED <<env, bot, previous_exception, timestamp, request_query, response,
                   propagating, observed>>

\* mutant: a status text equal to the one of the previous cycle is not sent
Notify_Dedup ==
    /\ pc = "notify"
    /\ \E net \in NetOutcomes :
         LET r == IF last.sent # <<>> /\ last.sent[1].text = get_message
                  THEN Return(None, <<>>)
                  ELSE send_message(<<bot, get_message>>, net)
         IN  /\ previous_exception' = AfterSuccess(previous_exception)
             /\ Leave("ok", None, r.wire)
             /\ UNCHANGED error
    /\ get_message' = None
    /\ response' = None
    /\ UNCHANGED <<env, bot, timestamp, request_query, propagating, from_date, gets,
                   served, last, slept>>

\* lines 176-177: send_message(bot=bot, message=get_message), then the reset
Notify ==
    /\ pc = "notify"
    /\ \E net \in NetOutcomes :
         LET r == send_message(<<bot, get_message>>, net)
         IN  IF r.k = "raise"
             THEN /\ error' = r.e
                  /\ sent' = sent \o r.wire
                  /\ pc' = "except"
                  /\ UNCHANGED <<previous_exception, result, raised, runSent>>
             ELSE /\ previous_exception' = AfterSuccess(previous_exception)
                  /\ Leave("ok", None, r.wire)
                  /\ UNCHANGED error
    /\ get_message' = None
    /\ response' = None
    /\ UNCHANGED <<env, bot, timestamp, request_query, propagating, from_date, gets,
                   served, last, slept>>

\* mutant: the error is stored only when its notification was delivered
Except_StoreOnDelivery ==
    /\ pc = "except"
    /\ \E net \in NetOutcomes :
         LET r == IF Differs(previous_exception, error)
                  THEN send_message(<<bot, PyText(StrOf(error))>>, net)
                  ELSE Return(None, <<>>)
         IN  /\ previous_exception' =
                    IF \E i \in 1..Len(r.wire) : ~r.wire[i].delivered
                    THEN previous_exception ELSE error
             /\ UNCHANGED propagating
             /\ Leave("fail", error, r.wire)
    /\ error' = None
    /\ response' = None
    /\ UNCHANGED <<env, bot, timestamp, request_query, get_message, from_date, gets,
                   served, last, slept>>

\* lines 178-182: the except clause
Except ==
    /\ pc = "except"
    /\ \E net \in NetOutcomes :
         LET r == IF Differs(previous_exception, error)
                  THEN send_message(<<bot, PyText(StrOf(error))>>, net)
                  ELSE Return(None, <<>>)
         IN  /\ IF r.k = "raise"
                THEN /\ propagating' = r.e
                     /\ UNCHANGED previous_exception
                ELSE /\ previous_exception' = error
                     /\ UNCHANGED propagating
             /\ Leave("fail", error, r.wire)
    /\ error' = None
    /\ response' = None
    /\ UNCHANGED <<env, bot, timestamp, request_query, get_message, from_date, gets,
                   served, last, slept>>

\* the current_date of a decoded mapping, None when there is none
ServedDate(o) ==
    IF o.kind = "response" /\ o.status_code = HTTP_OK /\ o.body.t = "dict"
    THEN Get(o.body, "current_date")
    ELSE None

\* lines 183-184: finally: time.sleep(RETRY_PERIOD); an exception raised in
\* the except clause leaves main() after it.  The record of the cycle is
\* closed into last.
Sleep ==
    /\ pc = "sleep"
    /\ slept' = slept + RETRY_PERIOD
    /\ last' = [result |-> result,
                text |-> IF result = "fail" THEN StrOf(raised) ELSE last.text,
                date |-> ServedDate(served),
                notified |-> sent # <<>>,
                sent |-> sent]
    /\ pc' = IF propagating # None THEN "crashed" ELSE "fetch"
    /\ gets' = <<>>
    /\ served' = None
    /\ sent' = <<>>
    /\ result' = "none"
    /\ raised' = None
    /\ UNCHANGED <<env, bot, previous_exception, timestamp, locals, propagating,
                   from_date, runSent>>

Next == Start \/ Fetch \/ Validate \/ Parse \/ Notify \/ Except \/ Sleep

Spec == Init /\ [][Next]_vars

\* the interpreter runs the one thread of main(): every step that can be
\* taken is taken (a call returns or raises, the sleep ends)
LiveSpec == Spec /\ WF_vars(Next)

\* ------------------------------------------------------------------ claims
Contains(frags, x) == \E i \in 1..Len(frags) : frags[i] = x

\* the cycle that just left its try statement failed with the text the
\* previous cycle failed with
SameAsLast == last.result = "fail" /\ last.text = StrOf(raised)

\* C1: a run of consecutive cycles failing with the same rendered text sends
\* exactly one notification: its first cycle sends one, every later cycle of
\* the run sends nothing.
C1_ErrorSuppression ==
    (pc = "sleep" /\ result = "fail") =>
        /\ runSent = 1
        /\ (SameAsLast => sent = <<>>)
        /\ (~SameAsLast => Len(sent) = 1)

\* the second cycle of such a run has ended
C1_Witness ==
    /\ pc = "sleep" /\ result = "fail" /\ SameAsLast
    /\ sent = <<>> /\ runSent = 1

\* C2: after a cycle without an exception previous_exception is None, and a
\* failing cycle that follows it sends its error, also when the text is the
\* one notified before the successful cycle.
C2_ResetOnSuccess ==
    /\ (pc = "sleep" /\ result = "ok") => previous_exception = None
    /\ (pc = "sleep" /\ result = "fail" /\ last.result = "ok") =>
           /\ Len(sent) = 1
           /\ sent[1].text = PyText(StrOf(raised))

\* failure, success, then the same failure again, notified again
C2_Witness ==
    /\ pc = "sleep" /\ result = "fail" /\ last.result = "ok"
    /\ last.text = StrOf(raised)
    /\ Len(sent) = 1 /\ sent[1].text = PyText(StrOf(raised))

ServedJson == served.kind = "response" /\ served.status_code = HTTP_OK /\ served.body.t = "dict"

ServedEmptyList == ServedJson /\ Get(served.body, "homeworks") = JList(<<>>)

\* C3: a cycle whose response is a mapping with an empty homeworks list
\* sends nothing, records no error, leaves the watermark alone and reaches
\* the sleep step.
C3_EmptyListIsSilent ==
    (result \in {"ok", "fail"} /\ ServedEmptyList) =>
        /\ pc = "sleep"
        /\ result = "ok"
        /\ sent = <<>>
        /\ previous_exception = None
        /\ timestamp = from_date

\* C4: the GET that follows a cycle in which fetch, validation, parsing and
\* notification succeeded asks from the current_date of that cycle's response.
C4_WatermarkAdvances ==
    (result = "running" /\ last.result = "ok" /\ last.notified /\ last.date # None) =>
        from_date = last.date

TransportFailure ==
    served.kind # "response" \/ served.status_code # HTTP_OK \/ served.body = NotJson

\* the rendered cause of a transport failure
Cause(o) ==
    CASE o.kind # "response" -> o.e
      [] o.status_code # HTTP_OK -> <<"Server domashki ne vernul status 200.">>
      [] OTHER -> <<"Ne udalos prochitat json-obekt.">>

\* C5: a transport failure makes the cycle fail with one error that carries
\* the underlying cause, and the cycle's notification, when one is sent, is
\* the rendered text of that error.
C5_TransportErrorCarriesCause ==
    (result \in {"ok", "fail"} /\ TransportFailure) =>
        /\ result = "fail"
        /\ \A i \in 1..Len(Cause(served)) : Contains(StrOf(raised), Cause(served)[i])
        /\ \A i \in 1..Len(sent) : sent[i].text = PyText(StrOf(raised))

InLoop == {"fetch", "validate", "parse", "notify", "except", "sleep"}

\* C6: past the credential check no error leaves the loop, and from every
\* position of the loop the next fetch is reached.
C6_LoopNeverAborts ==
    /\ [](pc # "crashed")
    /\ [](propagating = None)
    /\ (pc \in InLoop \ {"fetch"}) ~> (pc = "fetch")
    /\ (pc = "fetch") ~> (pc = "sleep")

\* the loop is back at the fetch after a failed cycle that sent its error
C6_Witness ==
    /\ pc = "fetch" /\ last.result = "fail" /\ last.notified
    /\ propagating = None

Undelivered == \E i \in 1..Len(sent) : ~sent[i].delivered

IsStatusText(m) == m.frags[1] = StatusPrefix

\* C7: a send that the messaging client fails returns normally: the cycle
\* goes on to the sleep step, a failed status notification leaves the cycle
\* a success and a failed error notification leaves the error recorded.
C7_NotifierDoesNotRaise ==
    Undelivered =>
        /\ pc = "sleep"
        /\ propagating = None
        /\ IF IsStatusText(sent[1].text)
           THEN result = "ok" /\ previous_exception = None
           ELSE result = "fail" /\ previous_exception = raised

\* a status notification was not delivered and the cycle sleeps
C7_Witness ==
    /\ pc = "sleep" /\ Undelivered
    /\ IsStatusText(sent[1].text) /\ result = "ok"

\* the newest record of the served list, when the list has one
First == Get(served.body, "homeworks").items[1]

ServedNonEmptyList ==
    /\ ServedJson
    /\ Get(served.body, "homeworks").t = "list"
    /\ Get(served.body, "homeworks").items # <<>>

GoodRecord(h) ==
    /\ h.t = "dict"
    /\ Get(h, "status").t = "str" /\ Get(h, "status").s \in {"approved", "reviewing", "rejected"}
    /\ Get(h, "homework_name").t = "str" /\ Get(h, "homework_name").s # ""

\* the verdict texts of lines 42-44
ExpectedVerdict(status) ==
    CASE status = "approved" -> "Rabota proverena: revyueru vsyo ponravilos. Ura!"
      [] status = "reviewing" -> "Rabota vzyata na proverku revyuerom."
      [] status = "rejected" -> "Rabota proverena: u revyuera est zamechaniya."

\* C8: a cycle whose response has a non-empty homeworks list with a good
\* first record sends exactly one notification, the status text built from
\* that first record.
C8_StatusNotification ==
    (result \in {"ok", "fail"} /\ ServedNonEmptyList /\ GoodRecord(First)) =>
        /\ result = "ok"
        /\ Len(sent) = 1
        /\ sent[1].text =
             PyText(<<"Izmenilsya status proverki raboty \"",
                      Get(First, "homework_name").s, "\". ",
                      ExpectedVerdict(Get(First, "status").s)>>)

\* the list holds an older record after the good first one
C8_Witness ==
    /\ pc = "sleep" /\ result = "ok" /\ ServedNonEmptyList /\ GoodRecord(First)
    /\ Len(Get(served.body, "homeworks").items) > 1
    /\ Len(sent) = 1

\* C9: check_response fails with the bad-shape error for a body that is no
\* mapping, with the missing-key error for a mapping without a list-valued
\* homeworks, and else returns its input as it is.
C9_ValidatorContract ==
    pc = "validate" =>
        LET r == check_response(request_query)
        IN  IF request_query.t # "dict"
            THEN r.k = "raise" /\ r.e.cls = "TypeError"
            ELSE IF Get(request_query, "homeworks").t # "list"
            THEN r.k = "raise" /\ r.e.cls = "KeyError"
            ELSE r.k = "return" /\ r.v = request_query

\* C10: for a record with a recognized status and a non-empty name
\* parse_status returns a message holding the name and the verdict text of
\* that status.
C10_ParseSuccess ==
    (pc \in {"notify", "except"} /\ response # None /\ GoodRecord(response)) =>
        /\ pc = "notify"
        /\ get_message.t = "text"
        /\ Contains(get_message.frags, Get(response, "homework_name").s)
        /\ Contains(get_message.frags, ExpectedVerdict(Get(response, "status").s))

C10_Witness ==
    /\ pc = "notify" /\ GoodRecord(response)
    /\ Get(response, "status").s = "reviewing"
    /\ Contains(get_message.frags, "Rabota vzyata na proverku revyuerom.")

GoodStatus(h) ==
    Get(h, "status").t = "str" /\ Get(h, "status").s \in {"approved", "reviewing", "rejected"}

\* C11: for a record whose status is absent or outside approved, reviewing,
\* rejected, parse_status fails whatever the name is: no message is
\* returned and the cycle sends no status notification.
C11_UnknownStatusRejected ==
    /\ (pc \in {"notify", "except"} /\ response # None /\ response.t = "dict"
        /\ ~GoodStatus(response)) =>
           /\ pc = "except"
           /\ error.t = "exception"
           /\ get_message = None
           /\ sent = <<>>
    /\ (pc = "sleep" /\ ServedNonEmptyList /\ First.t = "dict" /\ ~GoodStatus(First)) =>
           \A i \in 1..Len(sent) : ~IsStatusText(sent[i].text)

\* an unknown status with a good name was rejected
C11_Witness ==
    /\ pc = "except" /\ response # None /\ response.t = "dict"
    /\ Get(response, "status") = JStr("unknown")
    /\ Get(response, "homework_name") = JStr("hw1")
    /\ error.t = "exception"

\* C12: for a record with a recognized status whose homework_name is absent
\* or empty, parse_status fails with the missing-name error.
C12_MissingNameRejected ==
    (pc \in {"notify", "except"} /\ response # None /\ response.t = "dict"
     /\ GoodStatus(response) /\ ~Truthy(Get(response, "homework_name"))) =>
        /\ pc = "except"
        /\ error = Exc("KeyError", <<"V domashnei rabote net klyucha \"homework_name\"">>)
        /\ get_message = None

\* an empty name with the status approved was rejected
C12_Witness ==
    /\ pc = "except" /\ response # None /\ response.t = "dict"
    /\ Get(response, "status") = JStr("approved")
    /\ Get(response, "homework_name") = JStr("")
    /\ error.cls = "KeyError"

\* C13: a cycle issues one GET, and between its GET and the next one the
\* loop sleeps RETRY_PERIOD exactly once, after success and after failure.
C13_OneSleepBetweenFetches ==
    /\ (pc \in InLoop \ {"fetch"}) => (Len(gets) = 1 /\ slept = 0)
    /\ (pc = "fetch" /\ last.result \in {"ok", "fail"}) =>
           (slept = RETRY_PERIOD /\ gets = <<>>)
    /\ (pc = "fetch" /\ last.result = "none") => slept = 0

\* the loop is about to fetch again after a failed cycle and one sleep
C13_Witness ==
    pc = "fetch" /\ last.result = "fail" /\ slept = RETRY_PERIOD

AllTokens == \A n \in TokenNames : Truthy(env[n])

\* C14: with a credential absent or empty check_tokens ends the process
\* before the loop, so no GET and no notification happens; with all three
\* present the loop is entered.
C14_CredentialPrecondition ==
    (pc # "start") =>
        IF AllTokens
        THEN pc \in InLoop
        ELSE /\ pc = "exited"
             /\ gets = <<>> /\ from_date = None
             /\ sent = <<>> /\ last = NoCycle

\* only TELEGRAM_CHAT_ID is empty, and the process has ended
C14_Witness ==
    /\ pc = "exited"
    /\ env["TELEGRAM_CHAT_ID"] = JStr("")
    /\ Truthy(env["PRACTICUM_TOKEN"]) /\ Truthy(env["TELEGRAM_TOKEN"])

\* C15: a failing cycle whose error text differs from the stored error's
\* (or with none stored) makes exactly one send call, its text the rendered
\* error.
C15_ChangedErrorNotified ==
    (pc = "sleep" /\ result = "fail" /\ ~SameAsLast) =>
        /\ Len(sent) = 1
        /\ sent[1].text = PyText(StrOf(raised))

\* error B right after a notified error A
C15_Witness ==
    /\ pc = "sleep" /\ result = "fail"
    /\ last.result = "fail" /\ last.text # StrOf(raised) /\ last.sent # <<>>
    /\ Len(sent) = 1 /\ sent[1].text = PyText(StrOf(raised))

\* C16: get_api_answer returns the decoded response, and on a connection
\* error, timeout, request error, non-200 status or undecodable body it
\* returns an empty dictionary instead of raising (so an exception in such
\* a cycle can only be check_response's for the empty dictionary).
C16_ApiAnswerNeverRaises ==
    /\ pc = "validate" =>
           request_query = IF TransportFailure THEN EmptyDict ELSE served.body
    /\ (pc = "except" /\ TransportFailure) =>
           error = Exc("KeyError", <<"V otvete API net klyucha homeworks">>)

C18_LastErrorIsNewest ==
    /\ (pc = "sleep" /\ result = "fail") => previous_exception = raised
    /\ (pc = "sleep" /\ result = "fail" /\ SameAsLast /\ last.sent # <<>>
        /\ ~last.sent[1].delivered) => sent = <<>>

\* the error's send failed in the previous cycle and is not retried
C18_Witness ==
    /\ pc = "sleep" /\ result = "fail" /\ SameAsLast
    /\ last.sent # <<>> /\ ~last.sent[1].delivered
    /\ sent = <<>> /\ previous_exception = raised

====
